---- MODULE Spec2Model ----
(***************************************************************************)
(* A model of the dungeoncards game engine (src/src/main.rs): the card     *)
(* model, Game::new, start_floor, refresh_room, use_card, flee, buy_card   *)
(* and the command loop of main that dispatches on the game state.         *)
(*                                                                         *)
(* The 54-card deck makes the full game too large to enumerate, so a run   *)
(* is played with a sub-deck, the first DeckSize cards of DeckOrder, and a  *)
(* shuffle draws its outcome from MaxShuffle permutations.                 *)
(*                                                                         *)
(* The commands are the ones the loop documents to the player (use, flee,  *)
(* buy, continue, retry, and any unrecognised line).  "quit" leaves the    *)
(* loop and ends the process, so it has no successor state; the cheat      *)
(* commands marked "debug" in the source (win, steal) are not part of the  *)
(* game and are not modelled.                                              *)
(***************************************************************************)
EXTENDS Integers, Sequences, FiniteSets, TLC

\* the fields of struct Game
VARIABLES dungeon, dungeon_discard, room, bosses, shop, shop_stock,
          shop_discard, health, money, weapon_damage, weapon_durability,
          fled, state

vars == <<dungeon, dungeon_discard, room, bosses, shop, shop_stock,
          shop_discard, health, money, weapon_damage, weapon_durability,
          fled, state>>

(***************************************************************************)
(* Bounds of the model.                                                    *)
(***************************************************************************)
\* how many cards of DeckOrder are in the deck
DeckSize == 11
\* how many outcomes a shuffle can have
MaxShuffle == 2
\* how many riffles a shuffle of the full deck can be cut from
MaxRiffle == 4

(***************************************************************************)
(* Program constants.                                                      *)
(***************************************************************************)
U8_MAX == 255
ROOM_SIZE == 4
START_HEALTH == 12
START_MONEY == 5
JOKER_VALUE == 15

Min(a, b) == IF a <= b THEN a ELSE b
Max(a, b) == IF a >= b THEN a ELSE b

\* u8 arithmetic of a release build wraps
U8(x) == x % (U8_MAX + 1)

(***************************************************************************)
(* Cards.                                                                  *)
(***************************************************************************)
Suit == <<"Hearts", "Diamonds", "Clubs", "Spades">>
\* #[derive(Ord)] orders the variants of an enum by declaration
SuitOrd(s) == CHOOSE i \in 1..4 : Suit[i] = s
JokerColor == <<"Red", "Black">>
JokerColorOrd(c) == CHOOSE i \in 1..2 : JokerColor[i] = c
Rank == 1..13
Ten == 10
Jack == 11

Regular(s, r) == [type |-> "Regular", suit |-> s, rank |-> r]
Joker(c) == [type |-> "Joker", color |-> c]

IsJoker(card) == card.type = "Joker"
IsMonster(card) == card.type = "Regular" /\ card.suit \in {"Clubs", "Spades"}

\* Card::get_value
get_value(card) == IF card.type = "Regular" THEN card.rank ELSE JOKER_VALUE

\* halving that rounds down
div_floor2(v) == v \div 2

\* u32::div_ceil(2)
div_ceil2(v) == (v + 1) \div 2

\* Ord for Card: "Less", "Equal" or "Greater"
cmp_int(a, b) == IF a < b THEN "Less" ELSE IF a > b THEN "Greater" ELSE "Equal"
cmp(self, other) ==
    IF self.type = "Regular"
    THEN IF other.type = "Regular"
         THEN IF cmp_int(self.rank, other.rank) # "Equal"
              THEN cmp_int(self.rank, other.rank)
              ELSE cmp_int(SuitOrd(self.suit), SuitOrd(other.suit))
         ELSE "Greater"
    ELSE IF other.type = "Regular"
         THEN "Less"
         ELSE cmp_int(JokerColorOrd(self.color), JokerColorOrd(other.color))

\* slice::sort by Ord (insertion into a sorted prefix; stable)
RECURSIVE insert_sorted(_, _)
insert_sorted(s, card) ==
    IF s = <<>> THEN <<card>>
    ELSE IF cmp(card, s[Len(s)]) = "Less"
         THEN Append(insert_sorted(SubSeq(s, 1, Len(s) - 1), card), s[Len(s)])
         ELSE Append(s, card)
RECURSIVE sort(_)
sort(s) == IF s = <<>> THEN <<>>
           ELSE insert_sorted(sort(SubSeq(s, 1, Len(s) - 1)), s[Len(s)])

\* Vec::remove(i), 1-based
remove(s, i) == SubSeq(s, 1, i - 1) \o SubSeq(s, i + 1, Len(s))
\* the first n elements, and what is left after them
take(s, n) == SubSeq(s, 1, n)
drop(s, n) == SubSeq(s, n + 1, Len(s))
RECURSIVE reverse(_)
reverse(s) == IF s = <<>> THEN <<>> ELSE Append(reverse(Tail(s)), Head(s))
Range(s) == {s[i] : i \in 1..Len(s)}

(***************************************************************************)
(* The random generator.  A uniform shuffle's outcome does not depend on   *)
(* the order of its input; outcome number k of the model is the sorted     *)
(* sequence rotated by k places.                                           *)
(***************************************************************************)
Rng == 0..(MaxShuffle - 1)
shuffle(s, k) ==
    IF s = <<>> THEN <<>>
    ELSE LET t == sort(s)
             n == k % Len(t)
         IN drop(t, n) \o take(t, n)

(***************************************************************************)
(* The deck.                                                               *)
(***************************************************************************)
\* Game::create_deck: 13 ranks of each suit, then the two jokers
create_deck ==
    [i \in 1..52 |-> Regular(Suit[((i - 1) \div 13) + 1], ((i - 1) % 13) + 1)]
    \o <<Joker("Black"), Joker("Red")>>

\* The sub-deck is a prefix of this list.  The bosses come first, so that
\* every prefix in use holds them in pairs as the full deck does; then three
\* dungeon cards (a weapon and two monsters), then four shop cards (a
\* full-heal potion, a repair card, a joker, a potion), then further cards.
DeckOrder == <<Regular("Clubs", 10), Regular("Spades", 10),
               Regular("Clubs", 11), Regular("Spades", 11),
               Regular("Diamonds", 9), Regular("Spades", 5),
               Regular("Clubs", 4),
               Regular("Hearts", 11), Regular("Diamonds", 12), Joker("Red"),
               Regular("Hearts", 10),
               Regular("Diamonds", 13), Regular("Hearts", 5),
               Regular("Clubs", 6), Joker("Black")>>
SubDeckCards == Range(take(DeckOrder, DeckSize))
InPlay(card) == card \in SubDeckCards
SubDeck == SelectSeq(create_deck, InPlay)

(***************************************************************************)
(* The operations take and return the game as a record: the fields of     *)
(* struct Game, plus out, the status lines printed since the last prompt.  *)
(***************************************************************************)
ToDungeon(card) == card.type = "Regular" /\ card.rank \in 4..9
\* the shop's share as it would be if the jokers were dropped
ToShop_no_jokers(card) ==
    card.type = "Regular" /\ card.rank \in 10..13
                          /\ card.suit \in {"Hearts", "Diamonds"}

ToShop(card) ==
    \/ card.type = "Joker"
    \/ card.type = "Regular" /\ card.rank \in 10..13
                             /\ card.suit \in {"Hearts", "Diamonds"}
ToBosses(card) ==
    card.type = "Regular" /\ card.rank \in 10..13
                          /\ card.suit \in {"Clubs", "Spades"}

\* Game::new as it would be without bosses.sort()
Game_new_unsorted(deck) ==
    [dungeon |-> SelectSeq(deck, ToDungeon),
     dungeon_discard |-> <<>>,
     room |-> <<>>,
     bosses |-> SelectSeq(deck, ToBosses),
     shop |-> SelectSeq(deck, ToShop),
     shop_stock |-> <<>>,
     shop_discard |-> <<>>,
     health |-> START_HEALTH,
     money |-> START_MONEY,
     weapon_damage |-> 0,
     weapon_durability |-> U8_MAX,
     fled |-> FALSE,
     state |-> "Floor",
     out |-> <<>>]

\* Game::new, given the shuffled deck
Game_new(deck) ==
    [dungeon |-> SelectSeq(deck, ToDungeon),
     dungeon_discard |-> <<>>,
     room |-> <<>>,
     bosses |-> sort(SelectSeq(deck, ToBosses)),
     shop |-> SelectSeq(deck, ToShop),
     shop_stock |-> <<>>,
     shop_discard |-> <<>>,
     health |-> START_HEALTH,
     money |-> START_MONEY,
     weapon_damage |-> 0,
     weapon_durability |-> U8_MAX,
     fled |-> FALSE,
     state |-> "Floor",
     out |-> <<>>]

\* start_floor as it would be if the weapon were kept from floor to floor
start_floor_keeps_weapon(g, k) ==
    [g EXCEPT !.health = START_HEALTH,
              !.dungeon = shuffle(g.dungeon \o g.room \o g.dungeon_discard, k),
              !.room = <<>>,
              !.dungeon_discard = <<>>]

\* Game::start_floor; k is the shuffle's outcome
start_floor(g, k) ==
    [g EXCEPT !.health = START_HEALTH,
              !.weapon_damage = 0,
              !.weapon_durability = U8_MAX,
              !.dungeon = shuffle(g.dungeon \o g.room \o g.dungeon_discard, k),
              !.room = <<>>,
              !.dungeon_discard = <<>>]

say(g, line) == [g EXCEPT !.out = Append(@, line)]

\* the restock as it would be if it topped the room up whenever it is not full
restock_room_eager(g, quiet) ==
    IF Len(g.room) <= 3
    THEN LET amount_add == Min(ROOM_SIZE - Len(g.room), Len(g.dungeon))
             g1 == [g EXCEPT !.room = @ \o take(g.dungeon, amount_add),
                             !.dungeon = drop(@, amount_add)]
         IN IF amount_add > 0 /\ g.state = "Floor" /\ ~quiet
            THEN say(g1, "Restocked room")
            ELSE g1
    ELSE g

\* the restock as it would be if it waited for the room to be empty
restock_room_when_empty(g, quiet) ==
    IF Len(g.room) < 1
    THEN LET amount_add == Min(ROOM_SIZE - Len(g.room), Len(g.dungeon))
             g1 == [g EXCEPT !.room = @ \o take(g.dungeon, amount_add),
                             !.dungeon = drop(@, amount_add)]
         IN IF amount_add > 0 /\ g.state = "Floor" /\ ~quiet
            THEN say(g1, "Restocked room")
            ELSE g1
    ELSE g

\* Game::refresh_room, "restock room" part
restock_room(g, quiet) ==
    IF Len(g.room) <= 1
    THEN LET amount_add == Min(ROOM_SIZE - Len(g.room), Len(g.dungeon))
             g1 == [g EXCEPT !.room = @ \o take(g.dungeon, amount_add),
                             !.dungeon = drop(@, amount_add)]
         IN IF amount_add > 0 /\ g.state = "Floor" /\ ~quiet
            THEN say(g1, "Restocked room")
            ELSE g1
    ELSE g

\* check_won as it would be if it looked at the dungeon only
check_won_dungeon_only(g) ==
    IF g.dungeon = <<>>
    THEN LET g1 == say(g, "Floor complete!")
         IN IF g1.bosses = <<>>
            THEN [g1 EXCEPT !.state = "Won"]
            ELSE LET n == Min(Len(g1.shop), 4)
                 IN [g1 EXCEPT !.state = "Shop",
                               !.shop_stock = @ \o take(g1.shop, n),
                               !.shop = drop(@, n)]
    ELSE g

\* Game::refresh_room, "check if won" part
check_won(g) ==
    IF g.dungeon = <<>> /\ ~(\E i \in 1..Len(g.room) : IsMonster(g.room[i]))
    THEN LET g1 == say(g, "Floor complete!")
         IN IF g1.bosses = <<>>
            THEN [g1 EXCEPT !.state = "Won"]
            ELSE LET n == Min(Len(g1.shop), 4)
                 IN [g1 EXCEPT !.state = "Shop",
                               !.shop_stock = @ \o take(g1.shop, n),
                               !.shop = drop(@, n)]
    ELSE g

\* refresh_room as it would be with the win check before the loss check
refresh_room_win_first(g, quiet) ==
    LET g1 == check_won(restock_room(g, quiet))
    IN IF g1.state = "Floor" /\ g1.health <= 0
       THEN [say(g1, "You lost") EXCEPT !.state = "Lost"]
       ELSE g1

\* Game::refresh_room
refresh_room(g, quiet) ==
    LET g1 == restock_room(g, quiet)
    IN IF g1.health <= 0
       THEN [say(g1, "You lost") EXCEPT !.state = "Lost"]
       ELSE check_won(g1)

(***************************************************************************)
(* Player input.  A slot typed by the player parses to a number or fails   *)
(* to parse (NaN); NotAsked stands for a prompt that was never shown.      *)
(***************************************************************************)
NaN == -1
NotAsked == -2
SlotInputs == {NaN} \cup (0..ROOM_SIZE)

\* fight as it would be if the weapon wore down to one below the rank
fight_wears_more(g, rank) ==
    IF g.weapon_damage > 0 /\ g.weapon_durability > rank
    THEN LET d == rank - g.weapon_damage
             g1 == IF d < 0
                   THEN [g EXCEPT !.money = @ + (-d)]
                   ELSE [g EXCEPT !.health = Max(g.health - d, 0)]
         IN say([g1 EXCEPT !.weapon_durability = rank - 1],
                "Fought using weapon")
    ELSE say([g EXCEPT !.health = Max(g.health - rank, 0)], "Fought barehanded")

\* fight as it would be without the clamp of health at 0
fight_unclamped(g, rank) ==
    IF g.weapon_damage > 0 /\ g.weapon_durability > rank
    THEN LET d == rank - g.weapon_damage
             g1 == IF d < 0
                   THEN [g EXCEPT !.money = @ + (-d)]
                   ELSE [g EXCEPT !.health = g.health - d]
         IN say([g1 EXCEPT !.weapon_durability = rank], "Fought using weapon")
    ELSE say([g EXCEPT !.health = g.health - rank], "Fought barehanded")

\* fight as it would be if a weapon were usable at durability = rank
fight_at_durability(g, rank) ==
    IF g.weapon_damage > 0 /\ g.weapon_durability >= rank
    THEN LET d == rank - g.weapon_damage
             g1 == IF d < 0
                   THEN [g EXCEPT !.money = @ + (-d)]
                   ELSE [g EXCEPT !.health = Max(g.health - d, 0)]
         IN say([g1 EXCEPT !.weapon_durability = rank], "Fought using weapon")
    ELSE say([g EXCEPT !.health = Max(g.health - rank, 0)], "Fought barehanded")

\* Game::use_card, the Clubs | Spades arm
fight(g, rank) ==
    IF g.weapon_damage > 0 /\ g.weapon_durability > rank
    THEN LET d == rank - g.weapon_damage
             g1 == IF d < 0
                   THEN [g EXCEPT !.money = @ + (-d)]
                   ELSE [g EXCEPT !.health = Max(g.health - d, 0)]
         IN say([g1 EXCEPT !.weapon_durability = rank], "Fought using weapon")
    ELSE say([g EXCEPT !.health = Max(g.health - rank, 0)], "Fought barehanded")

\* drink as it would be with the cap fixed at 12
drink_capped_at_12(g, rank) ==
    IF rank < Jack
    THEN say([g EXCEPT !.health = Min(U8(g.health + rank), START_HEALTH)],
             "+HP")
    ELSE LET absorption == (rank - Ten) * 2
         IN say([g EXCEPT !.health = U8(START_HEALTH + absorption)], "Full heal")

\* drink as it would be without the cap on a potion's healing
drink_uncapped(g, rank) ==
    IF rank < Jack
    THEN say([g EXCEPT !.health = U8(g.health + rank)], "+HP")
    ELSE LET absorption == (rank - Ten) * 2
         IN say([g EXCEPT !.health = U8(START_HEALTH + absorption)], "Full heal")

\* Game::use_card, the Hearts arm
drink(g, rank) ==
    IF rank < Jack
    THEN say([g EXCEPT !.health = Min(U8(g.health + rank),
                                      Max(START_HEALTH, g.health))], "+HP")
    ELSE LET absorption == (rank - Ten) * 2
         IN say([g EXCEPT !.health = U8(START_HEALTH + absorption)], "Full heal")

\* wield as it would be if a repair card repaired twice its rank
wield_rank_repair(g, rank) ==
    IF rank < Jack
    THEN say([g EXCEPT !.weapon_damage = rank,
                       !.weapon_durability = U8_MAX], "Equipped")
    ELSE LET repair == rank * 2
             g1 == IF g.weapon_durability < U8_MAX
                   THEN [g EXCEPT !.weapon_durability = U8(@ + repair)]
                   ELSE g
         IN say(g1, "Repaired")

\* Game::use_card, the Diamonds arm
wield(g, rank) ==
    IF rank < Jack
    THEN say([g EXCEPT !.weapon_damage = rank,
                       !.weapon_durability = U8_MAX], "Equipped")
    ELSE LET repair == (rank - Ten) * 2
             g1 == IF g.weapon_durability < U8_MAX
                   THEN [g EXCEPT !.weapon_durability = U8(@ + repair)]
                   ELSE g
         IN say(g1, "Repaired")

\* the tail of use_card as it would be if the played card were dropped
discard_played_lost(g, room_idx) ==
    [g EXCEPT !.room = remove(@, room_idx),
              !.fled = FALSE]

\* the tail of use_card as it would be if it left fled as it is
discard_played_keeps_fled(g, room_idx) ==
    [g EXCEPT !.dungeon_discard = Append(@, g.room[room_idx]),
              !.room = remove(@, room_idx)]

\* the tail of Game::use_card: the played card is discarded
discard_played(g, room_idx) ==
    [g EXCEPT !.dungeon_discard = Append(@, g.room[room_idx]),
              !.room = remove(@, room_idx),
              !.fled = FALSE]

\* Game::use_card, the Joker arm; idx is the parsed answer to the prompt
destroy(g, room_idx, idx) ==
    IF idx = NaN
    THEN say(g, "Must enter a number between 1 and 4")
    ELSE IF idx = 0 \/ idx - 1 >= Len(g.room)
    THEN say(g, "No card in room slot")
    ELSE IF idx = room_idx
    THEN say(g, "Cannot destroy itself")
    ELSE LET v == div_ceil2(get_value(g.room[idx]))
             g1 == say([g EXCEPT !.money = @ + v,
                                 !.dungeon_discard = Append(@, g.room[idx]),
                                 !.room = remove(@, idx)], "Destroyed")
         IN discard_played(g1, IF idx < room_idx THEN room_idx - 1 ELSE room_idx)

\* whether use_card(room_idx) shows the "Choose a card to destroy" prompt
prompts(g, room_idx) ==
    /\ room_idx >= 1
    /\ room_idx <= Len(g.room)
    /\ IsJoker(g.room[room_idx])

\* use_card as it would be if a refused slot still cleared fled
use_card_clears_fled(g, room_idx, choice) ==
    IF room_idx = 0 \/ room_idx - 1 >= Len(g.room)
    THEN say([g EXCEPT !.fled = FALSE], "No card in room slot")
    ELSE LET card == g.room[room_idx]
         IN IF card.type = "Joker"
            THEN destroy(g, room_idx, choice)
            ELSE discard_played(
                   CASE card.suit \in {"Clubs", "Spades"} -> fight(g, card.rank)
                     [] card.suit = "Hearts" -> drink(g, card.rank)
                     [] card.suit = "Diamonds" -> wield(g, card.rank),
                   room_idx)

\* Game::use_card
use_card(g, room_idx, choice) ==
    IF room_idx = 0 \/ room_idx - 1 >= Len(g.room)
    THEN say(g, "No card in room slot")
    ELSE LET card == g.room[room_idx]
         IN IF card.type = "Joker"
            THEN destroy(g, room_idx, choice)
            ELSE discard_played(
                   CASE card.suit \in {"Clubs", "Spades"} -> fight(g, card.rank)
                     [] card.suit = "Hearts" -> drink(g, card.rank)
                     [] card.suit = "Diamonds" -> wield(g, card.rank),
                   room_idx)

\* flee as it would be without the check of fled
flee_unchecked(g) ==
    IF Len(g.room) < 4
    THEN say(g, "Can only flee from a full room")
    ELSE say([g EXCEPT !.dungeon = @ \o reverse(g.room),
                       !.room = <<>>,
                       !.fled = TRUE], "Fled from room!")

\* flee as it would be if the room went on top of the dungeon
flee_to_front(g) ==
    IF Len(g.room) < 4
    THEN say(g, "Can only flee from a full room")
    ELSE IF g.fled
    THEN say(g, "Cannot flee twice in a row")
    ELSE say([g EXCEPT !.dungeon = reverse(g.room) \o @,
                       !.room = <<>>,
                       !.fled = TRUE], "Fled from room!")

\* Game::flee
flee(g) ==
    IF Len(g.room) < 4
    THEN say(g, "Can only flee from a full room")
    ELSE IF g.fled
    THEN say(g, "Cannot flee twice in a row")
    ELSE say([g EXCEPT !.dungeon = @ \o reverse(g.room),
                       !.room = <<>>,
                       !.fled = TRUE], "Fled from room!")

\* buy_card as it would be without the check of money
buy_card_unchecked(g, shop_idx) ==
    IF shop_idx = 0 \/ shop_idx - 1 >= Len(g.shop_stock)
    THEN say(g, "No card in shop slot")
    ELSE LET card == g.shop_stock[shop_idx]
         IN say([g EXCEPT !.money = @ - get_value(card),
                          !.dungeon = Append(@, card),
                          !.shop_stock = remove(@, shop_idx)],
                "added to dungeon")

\* Game::buy_card
buy_card(g, shop_idx) ==
    IF shop_idx = 0 \/ shop_idx - 1 >= Len(g.shop_stock)
    THEN say(g, "No card in shop slot")
    ELSE LET card == g.shop_stock[shop_idx]
         IN IF g.money >= get_value(card)
            THEN say([g EXCEPT !.money = @ - get_value(card),
                               !.dungeon = Append(@, card),
                               !.shop_stock = remove(@, shop_idx)],
                     "added to dungeon")
            ELSE say(g, "Can't afford card")

\* the ["continue"] arm as it would be if it released one boss at a time
continue_shop_one_boss(g, k, k2) ==
    LET g1 == [g EXCEPT !.shop_discard = @ \o g.shop_stock,
                        !.shop_stock = <<>>]
        g2 == IF g1.shop = <<>>
              THEN say([g1 EXCEPT !.shop = shuffle(g1.shop_discard, k),
                                  !.shop_discard = <<>>], "Shop restocked")
              ELSE g1
    IN IF Len(g2.bosses) < 1
       THEN [g2 EXCEPT !.state = "Panicked"]
       ELSE LET g3 == say([g2 EXCEPT !.dungeon = @ \o take(g2.bosses, 1),
                                     !.bosses = drop(@, 1),
                                     !.state = "Floor"], "added to dungeon")
            IN refresh_room(start_floor(g3, k2), TRUE)

\* main, the ["continue"] arm; k and k2 are the outcomes of the two shuffles.
\* Indexing bosses[1] of a shorter vector panics, which ends the process.
continue_shop(g, k, k2) ==
    LET g1 == [g EXCEPT !.shop_discard = @ \o g.shop_stock,
                        !.shop_stock = <<>>]
        g2 == IF g1.shop = <<>>
              THEN say([g1 EXCEPT !.shop = shuffle(g1.shop_discard, k),
                                  !.shop_discard = <<>>], "Shop restocked")
              ELSE g1
    IN IF Len(g2.bosses) < 2
       THEN [g2 EXCEPT !.state = "Panicked"]
       ELSE LET g3 == say([g2 EXCEPT !.dungeon = @ \o take(g2.bosses, 2),
                                     !.bosses = drop(@, 2),
                                     !.state = "Floor"], "added to dungeon")
            IN refresh_room(start_floor(g3, k2), TRUE)

\* main, before the loop and the ["retry"] arm
new_game(k, k2) ==
    refresh_room(start_floor(Game_new(shuffle(SubDeck, k)), k2), TRUE)

(***************************************************************************)
(* The state machine.                                                      *)
(***************************************************************************)
\* the game as the loop finds it when it reads a command
G == [dungeon |-> dungeon, dungeon_discard |-> dungeon_discard,
      room |-> room, bosses |-> bosses, shop |-> shop,
      shop_stock |-> shop_stock, shop_discard |-> shop_discard,
      health |-> health, money |-> money, weapon_damage |-> weapon_damage,
      weapon_durability |-> weapon_durability, fled |-> fled,
      state |-> state, out |-> <<>>]

Set(g) ==
    /\ dungeon' = g.dungeon
    /\ dungeon_discard' = g.dungeon_discard
    /\ room' = g.room
    /\ bosses' = g.bosses
    /\ shop' = g.shop
    /\ shop_stock' = g.shop_stock
    /\ shop_discard' = g.shop_discard
    /\ health' = g.health
    /\ money' = g.money
    /\ weapon_damage' = g.weapon_damage
    /\ weapon_durability' = g.weapon_durability
    /\ fled' = g.fled
    /\ state' = g.state

\* the games a run can start with, one for each outcome of the two shuffles
NewGames == {new_game(k, k2) : k, k2 \in Rng}

Init ==
    \E g \in NewGames :
           /\ dungeon = g.dungeon
           /\ dungeon_discard = g.dungeon_discard
           /\ room = g.room
           /\ bosses = g.bosses
           /\ shop = g.shop
           /\ shop_stock = g.shop_stock
           /\ shop_discard = g.shop_discard
           /\ health = g.health
           /\ money = g.money
           /\ weapon_damage = g.weapon_damage
           /\ weapon_durability = g.weapon_durability
           /\ fled = g.fled
           /\ state = g.state

\* main, the ["use", card] arm of a floor, then refresh_room
use_command(g, idx, choice) ==
    refresh_room(IF idx = NaN
                 THEN say(g, "Must enter a number between 1 and 4")
                 ELSE use_card(g, idx, choice), FALSE)

\* main, the ["flee"] arm of a floor, then refresh_room
flee_command(g) == refresh_room(flee(g), FALSE)

\* main, the ["buy", card] arm of a shop
buy_command(g, idx) ==
    IF idx = NaN
    THEN say(g, "Must enter a number between 1 and 4")
    ELSE buy_card(g, idx)

\* main, the _ arm of each state; a floor still runs refresh_room
invalid_command(g) ==
    IF g.state = "Floor"
    THEN refresh_room(say(g, "Invalid command"), FALSE)
    ELSE say(g, "Invalid command")

\* what the player may answer to use_card(idx)'s prompt, if it shows one
Choices(g, idx) == IF prompts(g, idx) THEN SlotInputs ELSE {NotAsked}

Use ==
    /\ state = "Floor"
    /\ \E idx \in SlotInputs :
       \E choice \in Choices(G, idx) : Set(use_command(G, idx, choice))

Flee ==
    /\ state = "Floor"
    /\ Set(flee_command(G))

Buy ==
    /\ state = "Shop"
    /\ \E idx \in SlotInputs : Set(buy_command(G, idx))

Continue ==
    /\ state = "Shop"
    /\ \E k, k2 \in Rng : Set(continue_shop(G, k, k2))

Retry ==
    /\ state \in {"Lost", "Won"}
    /\ \E g \in NewGames : Set(g)

Invalid ==
    /\ state \in {"Floor", "Shop", "Lost", "Won"}
    /\ Set(invalid_command(G))

Next == Use \/ Flee \/ Buy \/ Continue \/ Retry \/ Invalid

Spec == Init /\ [][Next]_vars

\* The loop blocks on read_line until the player enters a command.  A
\* refused command changes nothing, so a step that changes the game is an
\* accepted command; a player who keeps issuing accepted commands does not
\* leave a floor or a shop waiting for ever.
Play == Use \/ Flee \/ Buy \/ Continue
\* the game waits for a command of Play
Waiting == state \in {"Floor", "Shop"}
\* Weak fairness of Play, written out: WF_vars(Play) is
\* []<>~ENABLED <<Play>>_vars \/ []<><<Play>>_vars, and <<Play>>_vars is
\* enabled exactly when the game is Waiting (the guards of Use, Flee, Buy
\* and Continue give one direction, C21's first two conjuncts the other).
\* The state predicate stands for ENABLED because evaluating ENABLED
\* recomputes every operator argument at each of its uses.
FairPlay == []<>(~Waiting) \/ []<><<Play>>_vars
LiveSpec == Spec /\ FairPlay

(***************************************************************************)
(* Game::new on the full deck.  The 54! shuffles are sampled by riffles    *)
(* and cuts: outcome (a, k) deals the card at position a * i + k (mod 54)  *)
(* of create_deck as the i-th card, for a stride a that has no factor in   *)
(* common with 54.  A state is the game as Game::new returns it, before    *)
(* start_floor has run.                                                    *)
(***************************************************************************)
Strides == <<1, 5, 7, 11, 13, 17, 19, 23, 25>>
full_shuffle(a, k) ==
    [i \in 1..Len(create_deck) |->
        create_deck[((a * (i - 1) + k) % Len(create_deck)) + 1]]
FullDecks ==
    {full_shuffle(Strides[n], k) : n \in 1..Min(MaxRiffle, Len(Strides)),
                                   k \in 0..(Len(create_deck) - 1)}
Deals == {Game_new(deck) : deck \in FullDecks}

DealInit ==
    \E g \in Deals :
           /\ dungeon = g.dungeon
           /\ dungeon_discard = g.dungeon_discard
           /\ room = g.room
           /\ bosses = g.bosses
           /\ shop = g.shop
           /\ shop_stock = g.shop_stock
           /\ shop_discard = g.shop_discard
           /\ health = g.health
           /\ money = g.money
           /\ weapon_damage = g.weapon_damage
           /\ weapon_durability = g.weapon_durability
           /\ fled = g.fled
           /\ state = g.state

\* game = Game::new()
Deal ==
    \E g \in Deals :
           /\ dungeon' = g.dungeon
           /\ dungeon_discard' = g.dungeon_discard
           /\ room' = g.room
           /\ bosses' = g.bosses
           /\ shop' = g.shop
           /\ shop_stock' = g.shop_stock
           /\ shop_discard' = g.shop_discard
           /\ health' = g.health
           /\ money' = g.money
           /\ weapon_damage' = g.weapon_damage
           /\ weapon_durability' = g.weapon_durability
           /\ fled' = g.fled
           /\ state' = g.state

DealNext == Deal

DealSpec == DealInit /\ [][DealNext]_vars

(***************************************************************************)
(* Vocabulary of the properties.                                           *)
(***************************************************************************)
Slots(g) == 1..Len(g.room)
HasMonster(cards) == \E i \in 1..Len(cards) : IsMonster(cards[i])
IsPotion(card) == card.type = "Regular" /\ card.suit = "Hearts"
Printed(g, line) == line \in Range(g.out)

\* the games a floor command hands to refresh_room
BeforeRefresh(g) ==
    {use_card(g, idx, choice) : idx \in 0..ROOM_SIZE, choice \in SlotInputs}
    \cup {flee(g), say(g, "Invalid command")}

\* a step in which flee succeeded
FleeStep ==
    /\ state = "Floor"
    /\ Printed(flee(G), "Fled from room!")
    /\ Set(flee_command(G))

\* a step in which use_card played a card
UseStep ==
    /\ state = "Floor"
    /\ \E idx \in Slots(G) : \E choice \in Choices(G, idx) :
          /\ Len(use_card(G, idx, choice).room) < Len(room)
          /\ Set(use_command(G, idx, choice))

(***************************************************************************)
(* C1: flee succeeds only from a room of exactly 4 cards with fled false;  *)
(* a successful flee sets fled, and fled is cleared only by a step in      *)
(* which use_card played a card, so between two successful flees there is  *)
(* always a successful use_card.                                           *)
(***************************************************************************)
C1_FleeNeedsUse ==
    [][/\ FleeStep => (Len(room) = 4 /\ ~fled /\ fled')
       /\ (fled /\ ~fled') => UseStep]_vars

\* a flee has succeeded after a card was played, and the next flee is refused
C1_Witness ==
    /\ state = "Floor"
    /\ fled
    /\ dungeon_discard # <<>>
    /\ Len(room) = 4
    /\ Printed(flee(G), "Cannot flee twice in a row")

(***************************************************************************)
(* C2: when refresh_room runs in a floor with health > 0, then after the   *)
(* top-up: if the dungeon is empty and the room holds no Clubs/Spades      *)
(* card, the state becomes Won when bosses is empty and otherwise Shop,    *)
(* with min(4, shop.len()) cards moved from the front of shop to           *)
(* shop_stock; in every other case the state stays Floor.                  *)
(***************************************************************************)
C2_Refreshed(g) ==
    LET n == IF Len(g.room) <= 1
             THEN Min(4 - Len(g.room), Len(g.dungeon)) ELSE 0
        topped == g.room \o take(g.dungeon, n)
        left == drop(g.dungeon, n)
        m == Min(4, Len(g.shop))
        r == refresh_room(g, FALSE)
    IN /\ r.room = topped
       /\ r.dungeon = left
       /\ IF left = <<>> /\ ~HasMonster(topped)
          THEN IF g.bosses = <<>>
               THEN r.state = "Won" /\ r.shop = g.shop
                                    /\ r.shop_stock = g.shop_stock
               ELSE /\ r.state = "Shop"
                    /\ r.shop_stock = g.shop_stock \o take(g.shop, m)
                    /\ r.shop = drop(g.shop, m)
          ELSE r.state = "Floor" /\ r.shop = g.shop
                                 /\ r.shop_stock = g.shop_stock

C2_FloorEnd ==
    state = "Floor" =>
        \A g \in BeforeRefresh(G) : g.health > 0 => C2_Refreshed(g)

\* the last floor was completed: no boss is left, and the game is won
C2_Witness ==
    /\ state = "Won"
    /\ dungeon = <<>>
    /\ ~HasMonster(room)
    /\ bosses = <<>>

(***************************************************************************)
(* C3: the loss check comes before the win check: a state with health 0    *)
(* is Lost (never Shop or Won, also when the dungeon is empty and no       *)
(* monster is left in the room), and from Lost only retry changes the      *)
(* game.                                                                   *)
(***************************************************************************)
C3_LossFirst ==
    /\ [](health = 0 => state = "Lost")
    /\ [][state = "Lost" => (UNCHANGED vars \/ \E g \in NewGames : Set(g))]_vars

\* lost by the fight that cleared the floor
C3_Witness ==
    /\ state = "Lost"
    /\ health = 0
    /\ dungeon = <<>>
    /\ ~HasMonster(room)

(***************************************************************************)
(* C4: use_card on a Clubs/Spades card of rank r uses the weapon iff       *)
(* weapon_damage > 0 and weapon_durability > r.  Used, with                *)
(* delta = r - weapon_damage: delta < 0 adds |delta| to money and leaves   *)
(* health, otherwise health becomes max(0, health - delta) and money is    *)
(* unchanged; weapon_durability becomes r.  Not used: health becomes       *)
(* max(0, health - r); weapon_damage, weapon_durability and money are      *)
(* unchanged.                                                              *)
(***************************************************************************)
C4_Fought(g, idx) ==
    LET r == g.room[idx].rank
        after == use_card(g, idx, NotAsked)
        delta == r - g.weapon_damage
    IN IF g.weapon_damage > 0 /\ g.weapon_durability > r
       THEN /\ Printed(after, "Fought using weapon")
            /\ after.weapon_durability = r
            /\ after.weapon_damage = g.weapon_damage
            /\ IF delta < 0
               THEN after.money = g.money - delta /\ after.health = g.health
               ELSE /\ after.health = Max(0, g.health - delta)
                    /\ after.money = g.money
       ELSE /\ Printed(after, "Fought barehanded")
            /\ after.health = Max(0, g.health - r)
            /\ after.weapon_damage = g.weapon_damage
            /\ after.weapon_durability = g.weapon_durability
            /\ after.money = g.money

C4_Fight ==
    state = "Floor" =>
        \A idx \in Slots(G) : IsMonster(room[idx]) => C4_Fought(G, idx)

\* a worn weapon meets a monster it beats with damage to spare, beside a
\* monster it is too worn for
C4_Witness ==
    /\ state = "Floor"
    /\ weapon_damage > 0
    /\ weapon_durability < U8_MAX
    /\ \E idx \in Slots(G) :
          /\ IsMonster(room[idx])
          /\ weapon_durability > room[idx].rank
          /\ room[idx].rank < weapon_damage
    /\ \E idx \in Slots(G) :
          /\ IsMonster(room[idx])
          /\ weapon_durability <= room[idx].rank

(***************************************************************************)
(* C5 as claimed: after the weapon has been used on a monster of rank r,   *)
(* it is still used against every later monster of rank <= r.              *)
(***************************************************************************)
\* the monsters still to come this floor
Later(g) == {c \in Range(g.room) \cup Range(g.dungeon) : IsMonster(c)}
\* g as the loop finds it at the next prompt: nothing printed yet
AtPrompt(g) == [g EXCEPT !.out = <<>>]
UsesWeapon(g, rank) ==
    Printed(fight(AtPrompt(g), rank), "Fought using weapon")

C6_RankValue == weapon_durability = U8_MAX \/ weapon_durability \in 1..13

(***************************************************************************)
(* C6, amended: weapon_durability is the pristine sentinel (255) or a      *)
(* value in 1..25: a rank 1..13 plus the repair amounts (2, 4, 6) of the   *)
(* repair cards used since.                                                *)
(***************************************************************************)
C6_Repaired == weapon_durability = U8_MAX \/ weapon_durability \in 1..25

\* a worn weapon repaired past every rank
C6_Witness ==
    /\ weapon_damage > 0
    /\ weapon_durability > 13
    /\ weapon_durability < U8_MAX

(***************************************************************************)
(* C7: health is never below 0, and health is above 12 only after a        *)
(* full-heal potion (Hearts Jack, Queen or King): the game starts with     *)
(* health <= 12, and only the use of such a potion takes it above 12.      *)
(***************************************************************************)
FullHealStep ==
    /\ state = "Floor"
    /\ \E idx \in Slots(G) :
          /\ IsPotion(room[idx])
          /\ room[idx].rank >= Jack
          /\ Set(use_command(G, idx, NotAsked))

C7_HealthRange ==
    /\ health <= 12
    /\ [](health >= 0)
    /\ [][health' > 12 => (health > 12 \/ FullHealStep)]_vars

\* health above 12 midway through a floor, the full-heal potion discarded
C7_Witness ==
    /\ state = "Floor"
    /\ health > 12
    /\ \E i \in 1..Len(dungeon_discard) :
          IsPotion(dungeon_discard[i]) /\ dungeon_discard[i].rank >= Jack

(***************************************************************************)
(* C8: use_card on a Hearts card of rank r.  r < 11: health becomes        *)
(* min(health + r, max(12, health)); it never decreases, never rises       *)
(* above 12 from 12 or below, and stays as it is when above 12.  r >= 11:  *)
(* health becomes 12 + (r - 10) * 2.  Money and weapon are unchanged.      *)
(***************************************************************************)
C8_Drunk(g, idx) ==
    LET r == g.room[idx].rank
        h == g.health
        after == use_card(g, idx, NotAsked)
    IN /\ IF r < 11
          THEN /\ after.health = Min(h + r, Max(12, h))
               /\ after.health >= h
               /\ h <= 12 => after.health <= 12
               /\ h > 12 => after.health = h
          ELSE after.health = 12 + (r - 10) * 2
       /\ after.money = g.money
       /\ after.weapon_damage = g.weapon_damage
       /\ after.weapon_durability = g.weapon_durability

C8_Potion ==
    state = "Floor" =>
        \A idx \in Slots(G) : IsPotion(room[idx]) => C8_Drunk(G, idx)

\* a potion of rank below 11 in the room while health is above 12
C8_Witness ==
    /\ state = "Floor"
    /\ health > 12
    /\ \E idx \in Slots(G) : IsPotion(room[idx]) /\ room[idx].rank < 11

(***************************************************************************)
(* C9: playing a Joker at slot j and destroying slot d # j adds            *)
(* ceil(value(room[d]) / 2) to money; the destroyed card and then the      *)
(* Joker leave the room for the end of dungeon_discard, whether d is below *)
(* or above j; the other room cards keep their order; fled is cleared;     *)
(* health and weapon are unchanged.                                        *)
(***************************************************************************)
\* s without the elements at the positions in gone
Without(s, gone) ==
    LET F[i \in 0..Len(s)] ==
          IF i = 0 THEN <<>>
          ELSE IF i \in gone THEN F[i - 1] ELSE Append(F[i - 1], s[i])
    IN F[Len(s)]

C9_Destroyed(g, j, d) ==
    LET v == get_value(g.room[d])
        after == use_card(g, j, d)
    IN /\ after.money = g.money + (IF v % 2 = 0 THEN v \div 2 ELSE v \div 2 + 1)
       /\ after.room = Without(g.room, {j, d})
       /\ after.dungeon_discard = g.dungeon_discard \o <<g.room[d], g.room[j]>>
       /\ after.fled = FALSE
       /\ after.health = g.health
       /\ after.weapon_damage = g.weapon_damage
       /\ after.weapon_durability = g.weapon_durability
       /\ after.dungeon = g.dungeon

C9_Joker ==
    state = "Floor" =>
        \A j \in Slots(G) : IsJoker(room[j]) =>
            \A d \in Slots(G) \ {j} : C9_Destroyed(G, j, d)

\* a Joker in the room behind another card, which it can destroy
C9_Witness ==
    /\ state = "Floor"
    /\ \E j \in Slots(G) : IsJoker(room[j]) /\ j > 1

(***************************************************************************)
(* C10: buy_card(i) with a valid slot i: if money >= the value of          *)
(* shop_stock[i], money decreases by that value and the card moves from    *)
(* shop_stock to the end of dungeon, the room unchanged; otherwise nothing *)
(* changes.  Money never goes below 0.                                     *)
(***************************************************************************)
C10_Bought(g, i) ==
    LET card == g.shop_stock[i]
        after == buy_card(g, i)
    IN IF g.money >= get_value(card)
       THEN /\ after.money = g.money - get_value(card)
            /\ after.dungeon = Append(g.dungeon, card)
            /\ after.shop_stock = Without(g.shop_stock, {i})
            /\ after.room = g.room
            /\ after.shop = g.shop
            /\ after.shop_discard = g.shop_discard
            /\ after.dungeon_discard = g.dungeon_discard
            /\ after.bosses = g.bosses
       ELSE AtPrompt(after) = g

C10_Buy ==
    /\ money >= 0
    /\ state = "Shop" =>
          \A i \in 1..Len(shop_stock) : C10_Bought(G, i)

\* a card has been bought, and another one on sale costs more than is left
C10_Witness ==
    /\ state = "Shop"
    /\ dungeon # <<>>
    /\ \E i \in 1..Len(shop_stock) : money < get_value(shop_stock[i])

(***************************************************************************)
(* C11: every rejected command leaves the whole game unchanged (the seven  *)
(* pools, health, money, weapon_damage, weapon_durability, fled, state):   *)
(* use_card with slot 0 or beyond the room; a Joker's destroy choice that  *)
(* is out of range, not a number, or the Joker's own slot; flee with fewer *)
(* than 4 room cards; flee with fled set; buy_card with an invalid slot;   *)
(* buy_card with too little money.  For the floor commands this holds also *)
(* after the refresh_room that the loop runs next.                         *)
(***************************************************************************)
\* g differs from the game at the prompt in nothing but what was printed
Unchanged(g) == AtPrompt(g) = G

C11_Rejected ==
    /\ state = "Floor" =>
          /\ \A idx \in 0..(ROOM_SIZE + 1) :
                (idx = 0 \/ idx > Len(room)) =>
                    /\ Unchanged(use_card(G, idx, NotAsked))
                    /\ Unchanged(use_command(G, idx, NotAsked))
          /\ \A j \in Slots(G) : IsJoker(room[j]) =>
                \A d \in SlotInputs \cup {ROOM_SIZE + 1} :
                    (d = NaN \/ d = 0 \/ d > Len(room) \/ d = j) =>
                        /\ Unchanged(use_card(G, j, d))
                        /\ Unchanged(use_command(G, j, d))
          /\ (Len(room) < 4 \/ fled) =>
                Unchanged(flee(G)) /\ Unchanged(flee_command(G))
    /\ state = "Shop" =>
          /\ \A i \in 0..(ROOM_SIZE + 1) :
                (i = 0 \/ i > Len(shop_stock)) => Unchanged(buy_card(G, i))
          /\ \A i \in 1..Len(shop_stock) :
                money < get_value(shop_stock[i]) => Unchanged(buy_card(G, i))

\* a room of fewer than 4 cards with a Joker in it: flee, a slot beyond the
\* room and the Joker's own slot are all refused
C11_Witness ==
    /\ state = "Floor"
    /\ Len(room) \in 2..3
    /\ \E j \in Slots(G) : IsJoker(room[j])

(***************************************************************************)
(* C12: continue, from the shop: the cards left in shop_stock move to      *)
(* shop_discard; if the shop pool is then empty, shop_discard is moved     *)
(* back into shop; the first two bosses move into the dungeon; the state   *)
(* becomes Floor; and after start_floor and the silent refresh, health is  *)
(* 12, weapon_damage 0, weapon_durability pristine, dungeon_discard and    *)
(* shop_stock are empty, the room holds exactly 4 cards, and the cards     *)
(* that were in room, dungeon (the purchases among them) or                *)
(* dungeon_discard, and the two bosses, are the cards of dungeon and room. *)
(***************************************************************************)
\* how many times each card occurs in s
Count(s) == [c \in Range(s) |-> Cardinality({i \in 1..Len(s) : s[i] = c})]

C12_Continued(g, k, k2) ==
    LET after == continue_shop(g, k, k2)
        unsold == g.shop_discard \o g.shop_stock
    IN /\ after.state = "Floor"
       /\ after.shop_stock = <<>>
       /\ IF g.shop = <<>>
          THEN after.shop_discard = <<>> /\ Count(after.shop) = Count(unsold)
          ELSE after.shop_discard = unsold /\ after.shop = g.shop
       /\ Len(g.bosses) >= 2
       /\ after.bosses = Tail(Tail(g.bosses))
       /\ after.health = 12
       /\ after.weapon_damage = 0
       /\ after.weapon_durability = 255
       /\ after.dungeon_discard = <<>>
       /\ Len(after.room) = 4
       /\ Count(after.room \o after.dungeon) =
             Count(g.room \o g.dungeon \o g.dungeon_discard
                   \o <<g.bosses[1], g.bosses[2]>>)
       /\ after.money = g.money
       /\ after.fled = g.fled

C12_Continue ==
    state = "Shop" => \A k, k2 \in Rng : C12_Continued(G, k, k2)

\* a shop left with a weapon in hand, a card bought, cards still on sale, a
\* card left in the room and the shop pool empty
C12_Witness ==
    /\ state = "Shop"
    /\ weapon_damage > 0
    /\ health # 12
    /\ dungeon # <<>>
    /\ shop_stock # <<>>
    /\ room # <<>>
    /\ shop = <<>>

(***************************************************************************)
(* C13: bosses holds an even number of cards in every reachable state, and *)
(* at least 2 whenever the state is Shop, so continue can always remove    *)
(* two bosses: it never indexes an empty or one-card boss pool.            *)
(***************************************************************************)
C13_BossPairs ==
    /\ Len(bosses) % 2 = 0
    /\ state = "Shop" => Len(bosses) >= 2
    /\ state # "Panicked"

\* the shop before the last floor: the last two bosses are left
C13_Witness ==
    /\ state = "Shop"
    /\ Len(bosses) = 2
    /\ \E k, k2 \in Rng : continue_shop(G, k, k2).bosses = <<>>

(***************************************************************************)
(* C14: bosses is sorted ascending by the card order in every reachable    *)
(* state, whatever the shuffle Game::new was given; the two bosses that a  *)
(* shop exit releases are the two lowest-ordered remaining ones; so the    *)
(* bosses enter the dungeon in non-decreasing rank order: no boss already  *)
(* released has a higher rank than one still in bosses.                    *)
(***************************************************************************)
\* the card order among Regular cards: by rank, then by suit
\* (Hearts < Diamonds < Clubs < Spades)
RegularBefore(a, b) ==
    \/ a.rank < b.rank
    \/ a.rank = b.rank /\ SuitOrd(a.suit) < SuitOrd(b.suit)
Ascending(s) == \A i \in 1..(Len(s) - 1) : RegularBefore(s[i], s[i + 1])

\* the decks that differ in the order of the boss cards
BossShuffles ==
    LET b == SelectSeq(SubDeck, ToBosses)
        rest == SelectSeq(SubDeck, LAMBDA c : ~ToBosses(c))
    IN {[i \in 1..Len(b) |-> b[f[i]]] \o rest : f \in Permutations(1..Len(b))}
SortsBosses == \A deck \in BossShuffles : Ascending(Game_new(deck).bosses)

\* the bosses that have left the boss pool
Released == {c \in Range(dungeon \o room \o dungeon_discard) : ToBosses(c)}

C14_BossOrder ==
    /\ SortsBosses
    /\ Ascending(bosses)
    /\ \A c \in Released : \A b \in Range(bosses) : c.rank <= b.rank
    /\ state = "Shop" =>
          \A k, k2 \in Rng :
              LET after == continue_shop(G, k, k2)
                  pair == {c \in Range(after.dungeon \o after.room) :
                             ToBosses(c)} \ Released
              IN /\ pair = {bosses[1], bosses[2]}
                 /\ \A c \in pair : \A b \in Range(after.bosses) :
                        RegularBefore(c, b)

\* the second shop: one pair of bosses has been released, a pair of higher
\* rank is about to be
C14_Witness ==
    /\ state = "Shop"
    /\ Released # {}
    /\ Len(bosses) >= 2
    /\ \A c \in Released : c.rank < bosses[1].rank

(***************************************************************************)
(* C15 as claimed: for every shuffle of the 54-card deck, Game::new        *)
(* partitions it exactly: dungeon gets all rank 4-9 cards (32), shop the   *)
(* rank 10-13 Hearts/Diamonds (8) and the two jokers (10 cards), bosses    *)
(* the rank 10-13 Clubs/Spades (8); the 12 cards of rank Ace-3 are         *)
(* dropped; the four groups account for all 54 cards.                      *)
(***************************************************************************)
AllCards == Range(create_deck)
RegularCards(suits, ranks) ==
    {c \in AllCards : c.type = "Regular" /\ c.suit \in suits /\ c.rank \in ranks}
Jokers == {c \in AllCards : c.type = "Joker"}
\* the cards that Game::new put in no pool
Dropped == AllCards \ Range(dungeon \o shop \o bosses)

C15_Dungeon32 ==
    /\ Cardinality(AllCards) = 54
    /\ Range(dungeon) = RegularCards(Range(Suit), 4..9)
    /\ Len(dungeon) = 32
    /\ Range(shop) = RegularCards({"Hearts", "Diamonds"}, 10..13) \cup Jokers
    /\ Len(shop) = 10
    /\ Range(bosses) = RegularCards({"Clubs", "Spades"}, 10..13)
    /\ Len(bosses) = 8
    /\ Dropped = RegularCards(Range(Suit), 1..3)
    /\ Cardinality(Dropped) = 12
    /\ Len(dungeon) + Len(shop) + Len(bosses) + Cardinality(Dropped) = 54

(***************************************************************************)
(* C15, amended: for every shuffle of the 54-card deck, Game::new          *)
(* partitions it exactly: dungeon gets all rank 4-9 cards, which are 24    *)
(* (6 ranks of 4 suits); shop the rank 10-13 Hearts/Diamonds (8) and the   *)
(* two jokers (10 cards); bosses the rank 10-13 Clubs/Spades (8); the 12   *)
(* cards of rank Ace-3 are dropped; 24 + 10 + 8 + 12 = 54, all the cards.  *)
(***************************************************************************)
C15_Partition ==
    /\ Cardinality(AllCards) = 54
    /\ Range(dungeon) = RegularCards(Range(Suit), 4..9)
    /\ Len(dungeon) = 24
    /\ Range(shop) = RegularCards({"Hearts", "Diamonds"}, 10..13) \cup Jokers
    /\ Cardinality(RegularCards({"Hearts", "Diamonds"}, 10..13)) = 8
    /\ Cardinality(Jokers) = 2
    /\ Len(shop) = 10
    /\ Range(bosses) = RegularCards({"Clubs", "Spades"}, 10..13)
    /\ Len(bosses) = 8
    /\ Dropped = RegularCards(Range(Suit), 1..3)
    /\ Cardinality(Dropped) = 12
    /\ Len(dungeon) + Len(shop) + Len(bosses) + Cardinality(Dropped) = 54
    /\ room = <<>> /\ dungeon_discard = <<>>
    /\ shop_stock = <<>> /\ shop_discard = <<>>

\* a deal from a deck that was shuffled: a joker was dealt to the shop before
\* any other card, and the dungeon does not start with the deck's first
\* dungeon card
C15_Witness ==
    /\ dungeon # <<>>
    /\ IsJoker(shop[1])
    /\ dungeon[1] # Regular("Hearts", 4)
    /\ dungeon[1].suit # dungeon[2].suit

(***************************************************************************)
(* C16 as claimed: the card comparison is a total order over all 54 cards  *)
(* in which Regular cards compare by rank and then by suit (Hearts <       *)
(* Diamonds < Clubs < Spades), every Regular card is less than every       *)
(* Joker, and the Black Joker is less than the Red Joker.                  *)
(***************************************************************************)
\* cmp is a total order on the cards
TotalOrder ==
    /\ \A a, b \in AllCards :
          /\ cmp(a, b) = "Equal" <=> a = b
          /\ cmp(a, b) = "Less" <=> cmp(b, a) = "Greater"
    /\ \A a, b, c \in AllCards :
          (cmp(a, b) = "Less" /\ cmp(b, c) = "Less") => cmp(a, c) = "Less"

\* Regular cards compare by rank and then by suit
RegularOrder ==
    \A a, b \in AllCards \ Jokers : cmp(a, b) = "Less" <=> RegularBefore(a, b)

\* the cards of the deck that was dealt: those in the pools and those dropped
Dealt == Range(dungeon \o shop \o bosses) \cup Dropped
DealtJokers == {c \in Range(shop) : IsJoker(c)}

C16_JokersHigh ==
    /\ TotalOrder
    /\ RegularOrder
    /\ \A a \in Dealt \ DealtJokers : \A j \in DealtJokers : cmp(a, j) = "Less"
    /\ \A j, k \in DealtJokers :
          (j.color = "Black" /\ k.color = "Red") => cmp(j, k) = "Less"

(***************************************************************************)
(* C16, what the code computes: a total order in which Regular cards       *)
(* compare by rank and then by suit, every Joker is less than every        *)
(* Regular card, and the Red Joker is less than the Black Joker.           *)
(***************************************************************************)
C16_JokersLow ==
    /\ TotalOrder
    /\ RegularOrder
    /\ \A a \in Dealt \ DealtJokers : \A j \in DealtJokers : cmp(j, a) = "Less"
    /\ \A j, k \in DealtJokers :
          (j.color = "Red" /\ k.color = "Black") => cmp(j, k) = "Less"

(***************************************************************************)
(* C17: the room never holds more than 4 cards, after any sequence of      *)
(* use_card, flee, refresh_room, buy_card, continue and retry; and         *)
(* refresh_room adds cards only to a room of 0 or 1 cards, and then        *)
(* exactly the first min(4 - room.len(), dungeon.len()) cards of the       *)
(* dungeon.                                                                *)
(***************************************************************************)
C17_Restocked(g) ==
    LET r == refresh_room(g, FALSE)
        n == IF 4 - Len(g.room) <= Len(g.dungeon)
             THEN 4 - Len(g.room) ELSE Len(g.dungeon)
    IN /\ Len(r.room) <= 4
       /\ IF Len(g.room) \in {0, 1}
          THEN /\ r.room = g.room \o [i \in 1..n |-> g.dungeon[i]]
               /\ r.dungeon = [i \in 1..(Len(g.dungeon) - n) |-> g.dungeon[i + n]]
          ELSE r.room = g.room /\ r.dungeon = g.dungeon

C17_RoomSize ==
    /\ Len(room) <= 4
    /\ state = "Floor" => \A g \in BeforeRefresh(G) : C17_Restocked(g)

\* two cards in the room and fewer than three in the dungeon: the card
\* played next leaves one, and the restock is cut short by the dungeon
C17_Witness ==
    /\ state = "Floor"
    /\ Len(room) = 2
    /\ Len(dungeon) \in 1..2

(***************************************************************************)
(* C18: a successful flee() moves exactly the 4 room cards to the end of   *)
(* dungeon, behind every card already in the dungeon, and leaves the room  *)
(* empty; dungeon_discard, health, money, weapon_damage,                   *)
(* weapon_durability, the shop pools, bosses and state are unchanged, and  *)
(* fled becomes true.                                                      *)
(***************************************************************************)
C18_Fled(g) ==
    LET after == flee(g)
        n == Len(g.dungeon)
    IN /\ after.room = <<>>
       /\ Len(after.dungeon) = n + 4
       /\ [i \in 1..n |-> after.dungeon[i]] = g.dungeon
       /\ Count([i \in 1..4 |-> after.dungeon[n + i]]) = Count(g.room)
       /\ after.fled = TRUE
       /\ after.dungeon_discard = g.dungeon_discard
       /\ after.health = g.health
       /\ after.money = g.money
       /\ after.weapon_damage = g.weapon_damage
       /\ after.weapon_durability = g.weapon_durability
       /\ after.shop = g.shop
       /\ after.shop_stock = g.shop_stock
       /\ after.shop_discard = g.shop_discard
       /\ after.bosses = g.bosses
       /\ after.state = g.state

C18_Flee ==
    (state = "Floor" /\ Len(room) = 4 /\ ~fled) =>
        (Printed(flee(G), "Fled from room!") /\ C18_Fled(G))

\* a full room to flee from, with cards in the dungeon and in the discard
\* pile, a weapon in hand
C18_Witness ==
    /\ state = "Floor"
    /\ Len(room) = 4
    /\ ~fled
    /\ dungeon # <<>>
    /\ dungeon_discard # <<>>
    /\ weapon_damage > 0

(***************************************************************************)
(* C19: card conservation.  In every reachable state each card that        *)
(* Game::new dealt is in exactly one of dungeon, dungeon_discard, room,    *)
(* bosses, shop, shop_stock, shop_discard: no command duplicates or loses  *)
(* a card.  A card leaves the shop pools only by a successful buy, and     *)
(* leaves bosses only by a shop exit.                                      *)
(***************************************************************************)
\* the cards that Game::new deals from the deck in play
InGame == {c \in Range(SubDeck) : ToDungeon(c) \/ ToShop(c) \/ ToBosses(c)}
AllPools == dungeon \o dungeon_discard \o room \o bosses
            \o shop \o shop_stock \o shop_discard
ShopPools == Range(shop \o shop_stock \o shop_discard)

\* a step in which buy_card sold the card at slot i
BuyStep(i) ==
    /\ state = "Shop"
    /\ i \in 1..Len(shop_stock)
    /\ money >= get_value(shop_stock[i])
    /\ Set(buy_command(G, i))

\* a step that left the shop
ContinueStep ==
    /\ state = "Shop"
    /\ \E k, k2 \in Rng : Set(continue_shop(G, k, k2))

C19_Conservation ==
    /\ [](Count(AllPools) = [c \in InGame |-> 1])
    /\ [][/\ \A c \in ShopPools : c \notin ShopPools' =>
                \E i \in 1..Len(shop_stock) :
                    /\ BuyStep(i)
                    /\ shop_stock[i] = c
                    /\ dungeon' = Append(dungeon, c)
          /\ \A c \in Range(bosses) : c \notin Range(bosses') =>
                /\ ContinueStep
                /\ c \in {bosses[1], bosses[2]}
                /\ c \in Range(dungeon' \o room')]_vars

\* the last floor: no boss is left in the pool, one lies in the discard
\* pile, and a card bought in a shop is in the room
C19_Witness ==
    /\ state = "Floor"
    /\ bosses = <<>>
    /\ \E i \in 1..Len(dungeon_discard) : ToBosses(dungeon_discard[i])
    /\ \E i \in 1..Len(room) : ToShop(room[i])
    /\ shop # <<>>

(***************************************************************************)
(* C20: fled is true only in state Floor.  The refresh that directly       *)
(* follows a flee never completes the floor and never loses the game, so   *)
(* fled is false in every Shop, Won and Lost state and at the start of     *)
(* every floor, although start_floor and the shop exit never reset it; the *)
(* player can therefore flee from the first room of a floor: a flee from   *)
(* that room, if it is full, is accepted.                                  *)
(***************************************************************************)
FleeAccepted == state = "Floor" /\ Printed(flee(G), "Fled from room!")

\* a step that starts a new run
RetryStep ==
    /\ state \in {"Lost", "Won"}
    /\ \E g \in NewGames : Set(g)

C20_FledOnFloor ==
    /\ ~fled
    /\ [](fled => state = "Floor")
    /\ [](FleeAccepted =>
            LET r == flee_command(G)
            IN r.fled /\ r.state = "Floor" /\ r.health = health)
    /\ [](state = "Shop" =>
            \A k, k2 \in Rng : continue_shop(G, k, k2).fled = fled)
    /\ [][(ContinueStep \/ RetryStep) =>
            /\ state' = "Floor"
            /\ ~fled'
            /\ Len(room') = 4 => FleeAccepted']_vars

\* the player has fled from the first room of a floor that followed a shop
C20_Witness ==
    /\ state = "Floor"
    /\ fled
    /\ dungeon_discard = <<>>
    /\ Len(bosses) < Cardinality({c \in InGame : ToBosses(c)})

(***************************************************************************)
(* C21: the game cannot get stuck and always ends.  In every Floor state   *)
(* awaiting a command the room is non-empty and use_card accepts at least  *)
(* one slot (a Joker is never the only card of the room); in every Shop    *)
(* state continue is accepted; if the player keeps issuing accepted        *)
(* commands, the run reaches Lost or Won; and Won is reached only after    *)
(* every pair of bosses has been released, one pair by each shop phase:    *)
(* four shop phases for the eight bosses of the full deck.                 *)
(***************************************************************************)
\* use_card(idx), the prompt answered by choice, plays the card
Accepts(idx, choice) == Len(use_card(G, idx, choice).room) < Len(room)
Ended == state \in {"Lost", "Won"}
\* the shop phases of this run that the player has left
ShopPhases == (Cardinality({c \in InGame : ToBosses(c)}) - Len(bosses)) \div 2

\* the bosses Game::new deals from the full deck
FullDeckBosses == Len(Game_new(create_deck).bosses)

C21_Ends ==
    /\ [](state = "Floor" =>
            /\ room # <<>>
            /\ ~(Len(room) = 1 /\ IsJoker(room[1]))
            /\ \E idx \in Slots(G) : \E choice \in Choices(G, idx) :
                  Accepts(idx, choice))
    /\ [](state = "Shop" =>
            \A k, k2 \in Rng : continue_shop(G, k, k2).state = "Floor")
    /\ []<>Ended
    /\ [](state = "Won" =>
            /\ bosses = <<>>
            /\ ShopPhases * 2 = Cardinality({c \in InGame : ToBosses(c)}))
    /\ [][ShopPhases' > ShopPhases =>
            (ContinueStep /\ ShopPhases' = ShopPhases + 1)]_vars
    /\ [](Waiting => FullDeckBosses = 4 * 2)

\* a room of two cards, one of them a Joker: playing either leaves the
\* other alone in the room
C21_Witness ==
    /\ state = "Floor"
    /\ Len(room) = 2
    /\ \E j \in Slots(G) : IsJoker(room[j])
    /\ ShopPhases > 0

(***************************************************************************)
(* C22: no 8-bit arithmetic overflows in any reachable state: health never *)
(* exceeds 18, so health + rank in the potion branch stays below 256; and  *)
(* a non-pristine weapon_durability never exceeds 25, so adding a repair   *)
(* amount never wraps and never reaches the pristine sentinel 255.         *)
(***************************************************************************)
IsRepair(card) ==
    card.type = "Regular" /\ card.suit = "Diamonds" /\ card.rank >= Jack
\* what a repair card adds to a worn weapon
RepairAmount(card) == (card.rank - Ten) * 2
\* the sum of f over the elements of s
RECURSIVE Sum(_, _)
Sum(f(_), s) == IF s = <<>> THEN 0 ELSE f(Head(s)) + Sum(f, Tail(s))
\* the repair amounts of the cards discarded on this floor
RepairsUsed == Sum(RepairAmount, SelectSeq(dungeon_discard, IsRepair))
\* the repair amounts of all the repair cards of the deck
RepairsInDeck == Sum(RepairAmount, SelectSeq(create_deck, IsRepair))

C22_NoOverflow ==
    /\ health <= 18
    /\ \A r \in Rank :
          /\ health + r < 256
          /\ drink(G, r).health <= 18
          /\ r < 11 => drink(G, r).health =
                           (IF health + r <= (IF health > 12 THEN health ELSE 12)
                            THEN health + r
                            ELSE IF health > 12 THEN health ELSE 12)
    /\ RepairsInDeck = 12
    /\ weapon_durability # 255 =>
          /\ weapon_durability <= 13 + RepairsUsed
          /\ weapon_durability <= 25
    /\ state = "Floor" =>
          \A idx \in Slots(G) :
              (IsRepair(room[idx]) /\ weapon_durability # 255) =>
                  /\ weapon_durability + RepairAmount(room[idx]) < 255
                  /\ use_card(G, idx, NotAsked).weapon_durability =
                        weapon_durability + RepairAmount(room[idx])

\* a worn weapon and a repair card for it in the room, while health is
\* above 12 after a full heal
C22_Witness ==
    /\ state = "Floor"
    /\ weapon_durability # 255
    /\ health > 12
    /\ \E idx \in Slots(G) : IsRepair(room[idx])

TypeOK ==
    /\ health \in 0..U8_MAX
    /\ state \in {"Floor", "Shop", "Lost", "Won"}

====
